---- MODULE Spec2Model ----
(***************************************************************************)
(* External-IP-ASCII-Worldmap: the line normalizer, the geo projector, the *)
(* rasterizer and the render loop of mapIP.py / showExternalIPOnMap.py,    *)
(* with worldmap.py's covertImageToAscii.                                  *)
(*                                                                         *)
(* Strings are sequences of one-character strings.  Python floats are      *)
(* modelled by exact rationals (numerator, denominator); int(x) is         *)
(* truncation toward zero.  Within the bounds used below the float results *)
(* of the source and the exact results coincide.                           *)
(***************************************************************************)
EXTENDS Integers, Sequences, FiniteSets, TLC

VARIABLES
    \* ---- the pure functions applied on their own
    arg,                  \* the inputs of the function
    res,                  \* its results
    fpc,                  \* "idle" | "in" | "once" | "twice" | "projected"
    \* ---- the process (one of the two entry-point scripts)
    script,               \* "mapIP" | "showExternalIPOnMap"
    pc,                   \* position in __main__ / draw
    exitCode,             \* -1 while running, else the process exit code
    exitCause,            \* None while running, else why the process ended
    now,                  \* time.time(), in seconds
    refreshTime,          \* draw's local refreshTime
    loc,                  \* draw's locals ip, geo, city, region, country
    last_ip_check,        \* draw's local last_ip_check
    update_display,       \* draw's local update_display (forced redraw)
    map_needs_update,     \* draw's local map_needs_update
    ip_changed,           \* draw's local ip_changed
    curSize,              \* global curSize
    worldMap,             \* global worldMap (None or list of rows)
    worldMapTemp,         \* draw's local worldMapTemp (Unbound until assigned)
    last_display_content, \* global last_display_content
    term,                 \* draw's locals terminal_height, terminal_width
    screen,               \* what the terminal shows (last console.print(layout))
    \* ---- observations of the run (history, never read by the program)
    tick,                 \* what the current loop iteration did so far
    calm,                 \* a frame was flushed and every step since was quiet
    mapFor,               \* the terminal size worldMap was rasterized for
    interrupted           \* a KeyboardInterrupt has been delivered

pureVars == <<arg, res, fpc>>
progVars == <<script, pc, exitCode, exitCause, now, refreshTime, loc, last_ip_check,
              update_display, map_needs_update, ip_changed, curSize, worldMap,
              worldMapTemp, last_display_content, term, screen>>
obsVars  == <<tick, calm, mapFor, interrupted>>
vars     == <<pureVars, progVars, obsVars>>

None    == "None"                 \* None where a str is expected
NoneGeo == [none |-> TRUE]          \* None where the geo tuple is expected

(***************************************************************************)
(* Bounds of the model.                                                    *)
(***************************************************************************)
MaxLineLen == 3      \* longest input row of the line normalizer
MaxTarget  == 4      \* largest target width of the line normalizer
MaxGridH   == 4      \* largest grid height of the geo projector
MaxGridW   == 5      \* largest grid width of the geo projector
MaxLat     == 95     \* latitudes -MaxLat..MaxLat (and +-1000)
MaxLonK    == 16     \* longitudes 12 * (-MaxLonK..MaxLonK) (and +-1000)
MaxTime    == 9      \* the clock stops the run at MaxTime seconds
MaxImgW    == 3      \* widest bitmap of the rasterizer
MaxImgH    == 4      \* tallest bitmap of the rasterizer
MaxCols    == 3      \* target columns -1..MaxCols
MaxScaleHalves == 5  \* aspect scales -1/2, 0, 1/2, ..., MaxScaleHalves/2

(***************************************************************************)
(* Python arithmetic.                                                      *)
(***************************************************************************)
Abs(n) == IF n < 0 THEN -n ELSE n

Min(a, b) == IF a < b THEN a ELSE b

Max(a, b) == IF a > b THEN a ELSE b

\* int(n / d) for a float quotient n/d: truncation toward zero.
PyInt(n, d) ==
    LET q == Abs(n) \div Abs(d)
    IN  IF (n < 0) # (d < 0) THEN -q ELSE q

(***************************************************************************)
(* Line normalizer.                                                        *)
(***************************************************************************)
\* The characters unicodedata.east_asian_width classes 'F' or 'W'; "W" stands
\* for one full-width character (such as U+FF37).
WideChars == {"W"}

get_char_width(char) == IF char \in WideChars THEN 2 ELSE 1

RECURSIVE LineWidth(_)
LineWidth(line) ==
    IF line = <<>> THEN 0
    ELSE get_char_width(Head(line)) + LineWidth(Tail(line))

RECURSIVE Spaces(_)
Spaces(n) == IF n <= 0 THEN <<>> ELSE <<" ">> \o Spaces(n - 1)

\* The truncation loop: append while the next character still fits, break at
\* the first one that does not.
RECURSIVE TruncateLoop(_, _, _, _)
TruncateLoop(rest, result, width, target_length) ==
    IF rest = <<>> THEN result
    ELSE LET char_width == get_char_width(Head(rest))
         IN  IF width + char_width <= target_length
             THEN TruncateLoop(Tail(rest), Append(result, Head(rest)),
                               width + char_width, target_length)
             ELSE result

ensure_line_length(line, target_length) ==
    LET current_width == LineWidth(line)
    IN  IF current_width > target_length
        THEN TruncateLoop(line, <<>>, 0, target_length)
        ELSE line \o Spaces(target_length - current_width)

(***************************************************************************)
(* Geo projector.                                                          *)
(***************************************************************************)
\* geo_to_ascii as it would be without the two max(0, min(...)) lines.
geo_to_ascii_unclamped(geo, map_height, map_width) ==
    IF geo = NoneGeo THEN <<0, 0>>
    ELSE <<PyInt((90 - geo.lat) * map_height * 100, 180 * 85),
           PyInt((geo.lon + 180) * map_width, 360)>>

\* geo_to_ascii as it would be without the factor (1/0.85).
geo_to_ascii_uncorrected(geo, map_height, map_width) ==
    IF geo = NoneGeo THEN <<0, 0>>
    ELSE <<Max(0, Min(PyInt((90 - geo.lat) * map_height, 180), map_height - 1)),
           Max(0, Min(PyInt((geo.lon + 180) * map_width, 360), map_width - 1))>>

\* lat = int(((90 - geo[0]) / 180) * map_height * (1/0.85)), the product taken
\* exactly: (90 - lat) * H * 100 / (180 * 85).
geo_to_ascii(geo, map_height, map_width) ==
    IF geo = NoneGeo THEN <<0, 0>>   \* except Exception: return (0, 0)
    ELSE LET lat0 == PyInt((90 - geo.lat) * map_height * 100, 180 * 85)
             lon0 == PyInt((geo.lon + 180) * map_width, 360)
             lat  == Max(0, Min(lat0, map_height - 1))
             lon  == Max(0, Min(lon0, map_width - 1))
         IN  <<lat, lon>>

(***************************************************************************)
(* Rasterizer (worldmap.py).                                               *)
(***************************************************************************)
\* 9 levels of gray: the second assignment of gscale2 is the one in force.
gscale2 == <<"@", "%", "*", "+", "=", "_", "-", ":", " ">>

\* 70 levels of gray.
gscale1 == <<"$", "B", "%", "8", "&", "W", "M", "*", "o", "a", "h", "k", "b",
             "d", "p", "q", "w", "m", "Z", "O", "0", "Q", "L", "C", "J", "U",
             "Y", "X", "z", "c", "v", "u", "n", "x", "r", "j", "f", "t", "/",
             "\\", "|", "(", ")", "1", "{", "}", "[", "]", "?", "-", "_", "+",
             "~", "<", ">", "i", "!", "l", "I", ";", ":", ",", "\"", "^", "`",
             "'", ".", " ">>

\* map.png after convert('L'): rows of luminance samples, top row first.
MapPng == << <<255, 255,   0,   0, 255, 255>>,
             <<255,   0,   0,  90,   0, 255>>,
             <<255, 255,  40,   0, 255, 255>>,
             <<255, 255, 255, 255, 200, 255>> >>

ImageW(image) == Len(image[1])

ImageH(image) == Len(image)

RECURSIVE SumRow(_, _, _)
SumRow(row, x1, x2) ==
    IF x1 >= x2 THEN 0 ELSE row[x1 + 1] + SumRow(row, x1 + 1, x2)

RECURSIVE SumTile(_, _, _, _, _)
SumTile(image, x1, y1, x2, y2) ==
    IF y1 >= y2 THEN 0
    ELSE SumRow(image[y1 + 1], x1, x2) + SumTile(image, x1, y1 + 1, x2, y2)

\* image.crop((x1, y1, x2, y2)) holds no sample.
TileEmpty(x1, y1, x2, y2) == x2 <= x1 \/ y2 <= y1

\* The mean as it would be with the sum divided by one more than the count.
getAverageL_biased(image, x1, y1, x2, y2) ==
    SumTile(image, x1, y1, x2, y2) \div ((x2 - x1) * (y2 - y1) + 1)

\* int(getAverageL(image.crop((x1, y1, x2, y2)))) of a tile that holds samples
\* (np.average of an empty tile is nan, and int(nan) raises).
getAverageL(image, x1, y1, x2, y2) ==
    SumTile(image, x1, y1, x2, y2) \div ((x2 - x1) * (y2 - y1))

\* The index as it would be with len(gscale) in place of len(gscale) - 1.
GlyphIndex_len(avg, gscale) == PyInt(avg * Len(gscale), 255)

\* int((avg * (len(gscale) - 1)) / 255)
GlyphIndex(avg, gscale) == PyInt(avg * (Len(gscale) - 1), 255)

\* gscale[int((avg * (len(gscale) - 1)) / 255)]
GlyphFor(avg, gscale) == gscale[GlyphIndex(avg, gscale) + 1]

\* scale is the float sn/sd.  w = W/cols, h = w/scale = W*sd / (cols*sn),
\* rows = int(H/h) = int(H*cols*sn / (W*sd)).
TileX1(i, W, cols) == PyInt(i * W, cols)

TileX2(i, W, cols) == IF i = cols - 1 THEN W ELSE PyInt((i + 1) * W, cols)

TileY1(j, W, cols, sn, sd) == PyInt(j * W * sd, cols * sn)

\* The lower edge as it would be without the correction of the last row.
TileY2_uncorrected(j, W, H, cols, rows, sn, sd) ==
    PyInt((j + 1) * W * sd, cols * sn)

TileY2(j, W, H, cols, rows, sn, sd) ==
    IF j = rows - 1 THEN H ELSE PyInt((j + 1) * W * sd, cols * sn)

\* The size check as it would be if it looked at the columns only.
TooSmall_cols_only(cols, rows, W, H) == cols > W

\* if cols > W or rows > H
TooSmall(cols, rows, W, H) == cols > W \/ rows > H

\* Image.open(fileName).convert('L'): the samples, or an exception when the
\* file is missing or corrupt.
ImageOpen(readable) ==
    IF readable THEN [kind |-> "image", px |-> MapPng]
    ELSE [kind |-> "Exception"]

\* rows = int(H/h) with w = W/cols and h = w/scale, scale = sn/sd.
GridRows(W, H, cols, sn, sd) == PyInt(H * cols * sn, W * sd)

covertImageToAscii(opened, cols, sn, sd, moreLevels) ==
    IF opened.kind = "Exception" THEN [kind |-> "Exception"]
    ELSE IF cols = 0 \/ sn = 0 \/ sd = 0
    THEN [kind |-> "Exception"]                            \* ZeroDivisionError
    ELSE
    LET image == opened.px
        W    == ImageW(image)
        H    == ImageH(image)
        rows == GridRows(W, H, cols, sn, sd)
        gs   == IF moreLevels THEN gscale1 ELSE gscale2
        x1(i) == TileX1(i, W, cols)
        x2(i) == TileX2(i, W, cols)
        y1(j) == TileY1(j, W, cols, sn, sd)
        y2(j) == TileY2(j, W, H, cols, rows, sn, sd)
    IN  IF TooSmall(cols, rows, W, H) THEN [kind |-> "SystemExit"] \* sys.exit(0)
        ELSE IF \E j \in 0..(rows - 1), i \in 0..(cols - 1) :
                    TileEmpty(x1(i), y1(j), x2(i), y2(j))
        THEN [kind |-> "Exception"]                        \* int(nan)
        ELSE [kind |-> "ok",
              aimg |-> [j \in 1..rows |->
                          [i \in 1..cols |->
                             GlyphFor(getAverageL(image, x1(i - 1), y1(j - 1),
                                                  x2(i - 1), y2(j - 1)), gs)]]]

\* The boxes (x1, y1, x2, y2) handed to image.crop by the two loops of a call
\* that runs them to the end, one per cell (j, i).
CropBoxes(image, cols, sn, sd) ==
    LET W    == ImageW(image)
        H    == ImageH(image)
        rows == GridRows(W, H, cols, sn, sd)
    IN  {[j |-> j, i |-> i,
          box |-> <<TileX1(i, W, cols), TileY1(j, W, cols, sn, sd),
                    TileX2(i, W, cols), TileY2(j, W, H, cols, rows, sn, sd)>>] :
            j \in 0..(rows - 1), i \in 0..(cols - 1)}

(***************************************************************************)
(* The environment of the render loop.                                     *)
(***************************************************************************)
Scripts == {"mapIP", "showExternalIPOnMap"}

\* What the two lookups can answer: a place, or a failure (a request that
\* raises, or a JSON answer without "loc").
PlaceA == [ip |-> "1.2.3.4", geo |-> [lat |-> 40, lon |-> -75],
           city |-> "X", region |-> "PA", country |-> "US"]

PlaceB == [ip |-> "5.6.7.8", geo |-> [lat |-> -33, lon |-> 151],
           city |-> "Y", region |-> "NSW", country |-> "AU"]

\* The address of PlaceA, located elsewhere by the geolocation service.
PlaceC == [ip |-> "1.2.3.4", geo |-> [lat |-> 51, lon |-> 0],
           city |-> "Z", region |-> "ENG", country |-> "GB"]

Places == {PlaceA, PlaceB, PlaceC}

PollFailures == {[fail |-> "request_raises"], [fail |-> "no_loc"]}

PollOutcomes == Places \cup PollFailures

\* (rows, columns) the terminal can have.
TermSizes == {<<6, 8>>, <<7, 8>>, <<7, 4>>, <<8, 9>>, <<9, 8>>, <<7, 11>>,
              <<6, 3>>}

\* -r values: X refreshes per second.
RefreshRates == {0, 1, -1}

\* -i value: ip_check_interval (seconds).
IpCheckInterval == 2

\* The flag as it would be if the loop never cleared it.
update_display_never_cleared == TRUE

\* update_display = False after console.print(layout).
update_display_after_print == FALSE

\* The flag as it would be if a failed flush cleared it as well.
FlagAfterFailedFlush_cleared(ud) == FALSE

\* An exception between "last_display_content = current_content" and
\* console.print(layout) skips "update_display = False": the flag is kept.
FlagAfterFailedFlush(ud) == ud

\* if current_content != last_display_content or update_display
ShouldFlush(current_content, last, ud) == current_content # last \/ ud

NoLocation == [ip |-> None, geo |-> NoneGeo, city |-> None, region |-> None,
               country |-> None]

PyNone == [kind |-> "None"]

PyUnbound == [kind |-> "Unbound"]

PyList(rows) == [kind |-> "list", rows |-> rows]

EmptyContent == [header |-> <<>>, rows |-> <<>>]

(***************************************************************************)
(* Helpers of the scripts.                                                 *)
(***************************************************************************)
\* text[:index] + replacement + text[index+1:]
replace_str_index(text, index, replacement) ==
    SubSeq(text, 1, index) \o <<replacement>> \o SubSeq(text, index + 2, Len(text))

\* The tuple get_external_ip_location returns: mapIP.py returns five Nones on
\* failure, showExternalIPOnMap.py returns four.
get_external_ip_location(scr, outcome) ==
    IF outcome \in Places
    THEN <<outcome.ip, outcome.geo, outcome.city, outcome.region, outcome.country>>
    ELSE IF scr = "mapIP"
         THEN <<None, NoneGeo, None, None, None>>
         ELSE <<None, NoneGeo, None, None>>

\* "a, b, c, d, e = ret" raises ValueError unless ret has five items.
UnpackRaises(ret) == Len(ret) # 5

LocationOf(ret) == [ip |-> ret[1], geo |-> ret[2], city |-> ret[3],
                    region |-> ret[4], country |-> ret[5]]

calculate_effective_width(terminal_width) == terminal_width - 4

generate_display_content(ip, city, region, country, rows, ip_check_interval) ==
    [header |-> <<ip, city, region, country, ip_check_interval>>, rows |-> rows]

\* if new_ip and (new_ip != ip)
AddressChanged(l, ret) == ret[1] # None /\ ret[1] # l.ip

\* The update as it would be with "if new_ip != ip", the truth test dropped.
LocationAfterPoll_untested(l, ret) ==
    IF ret[1] # l.ip THEN LocationOf(ret) ELSE l

\* The update as it would be if only ip were assigned from the poll.
LocationAfterPoll_partial(l, ret) ==
    IF AddressChanged(l, ret) THEN [l EXCEPT !.ip = ret[1]] ELSE l

\* The locals ip, geo, city, region, country after a poll that returned ret.
LocationAfterPoll(l, ret) ==
    IF AddressChanged(l, ret) THEN LocationOf(ret) ELSE l

\* The build's handler as it would be without its time.sleep(5).
AfterBuildFailure_continue == "tick_poll"

\* time.sleep(5); continue: where a failed build leaves the iteration.
AfterBuildFailure == "backoff"

\* The test as it would be if every tick counted as a resize.
SizeChanged_always(cur, size) == TRUE

\* if curSize[0] != terminal_height or curSize[1] != terminal_width
SizeChanged(cur, size) == cur[1] # size[1] \/ cur[2] # size[2]

\* The map build of the resize branch.  worldmap has no convertImageToAscii,
\* so the AttributeError handler's call of covertImageToAscii is the one that
\* runs; effective_width = 0 raises ZeroDivisionError before it.
BuildMap(size, readable) ==
    LET effective_width == calculate_effective_width(size[2])
    IN  IF effective_width = 0 THEN [kind |-> "Exception"]
        ELSE covertImageToAscii(ImageOpen(readable), effective_width,
                                (size[1] - 5) * 22, effective_width * 10, FALSE)

NormalizeRows(rows, effective_width) ==
    [i \in 1..Len(rows) |-> ensure_line_length(rows[i], effective_width)]

\* worldMapTemp after the marker overlay.
MarkLocation(rows, geo, effective_width) ==
    LET map_height == Len(rows)
        map_width  == IF map_height > 0 THEN Len(rows[1]) ELSE 0
        pos        == geo_to_ascii(geo, map_height, map_width)
        marked     == IF 0 <= pos[1] /\ pos[1] < map_height
                         /\ 0 <= pos[2] /\ pos[2] < map_width
                      THEN [rows EXCEPT ![pos[1] + 1] =
                               replace_str_index(rows[pos[1] + 1], pos[2], "X")]
                      ELSE rows
    IN  NormalizeRows(marked, effective_width)

\* One row of map_text: characters are appended until the line has reached
\* effective_width.
RECURSIVE RenderRow(_, _, _)
RenderRow(row, line_length, effective_width) ==
    IF row = <<>> THEN <<>>
    ELSE LET n == line_length + get_char_width(Head(row))
         IN  IF n >= effective_width THEN <<Head(row)>>
             ELSE <<Head(row)>> \o RenderRow(Tail(row), n, effective_width)

RenderFrame(l, rows, effective_width) ==
    [header |-> <<l.ip, l.city, l.region, l.country>>,
     rows   |-> [i \in 1..Len(rows) |-> RenderRow(rows[i], 0, effective_width)]]

(***************************************************************************)
(* The process: __main__ and draw.                                         *)
(***************************************************************************)
\* The classes that derive from BaseException but not from Exception.
BaseOnly == {"KeyboardInterrupt", "SystemExit"}

\* Whether an except clause of the given kind catches an exception of class
\* exc: a bare except catches everything, "except Exception" everything but
\* BaseOnly, any other clause its own class.
Catches(handler, exc) ==
    CASE handler = "bare"      -> TRUE
      [] handler = "Exception" -> exc \notin BaseOnly
      [] OTHER                 -> handler = exc

\* The handler of the loop as it would be with a bare except.
DrawHandler_bare == "bare"

\* except Exception as e: the handler around the loop body.
DrawHandler == "Exception"

\* The positions inside the try block of the loop body.
TryBlockPcs == {"tick_poll", "tick_size", "tick_render", "sleep"}

NotPolled == [fail |-> "not_polled"]

NewTick == [poll |-> "skipped", answer |-> NotPolled, resized |-> FALSE,
            build |-> "none", marked |-> FALSE, flushed |-> FALSE,
            reached |-> "top"]

Exit(code, cause) ==
    /\ pc' = "exited"
    /\ exitCode' = code
    /\ exitCause' = cause

ProgInit ==
    /\ script \in Scripts
    /\ pc = "main"
    /\ exitCode = -1
    /\ exitCause = None
    /\ now = 0
    /\ refreshTime = 0
    /\ loc = NoLocation
    /\ last_ip_check = 0
    /\ update_display = FALSE
    /\ map_needs_update = FALSE
    /\ ip_changed = FALSE
    /\ curSize = <<-1, -1>>
    /\ worldMap = PyNone
    /\ worldMapTemp = PyUnbound
    /\ last_display_content = EmptyContent
    /\ term = <<0, 0>>
    /\ screen = EmptyContent
    /\ tick = NewTick
    /\ calm = FALSE
    /\ mapFor = <<0, 0>>
    /\ interrupted = FALSE

PureIdle ==
    /\ arg = <<>>
    /\ res = <<>>
    /\ fpc = "idle"

Init == PureIdle /\ ProgInit

\* __main__: a refresh rate of 0 is fatal, otherwise draw(rr, ip_interval).
Main ==
    /\ pc = "main"
    /\ \E rr \in RefreshRates :
         IF rr = 0
         THEN /\ Exit(1, "invalid_refresh")
              /\ UNCHANGED refreshTime
         ELSE /\ refreshTime' = (IF rr > 0 THEN 1 \div rr ELSE -(1 \div (-rr)))
              /\ pc' = "init_poll"
              /\ UNCHANGED <<exitCode, exitCause>>
    /\ UNCHANGED <<script, now, loc, last_ip_check, update_display,
                   map_needs_update, ip_changed, curSize, worldMap, worldMapTemp,
                   last_display_content, term, screen>>
    /\ UNCHANGED <<pureVars, obsVars>>

\* draw, before the loop: the first poll.  mapIP.py: geo is None, draw returns
\* and the script ends normally.  showExternalIPOnMap.py: unpacking the four
\* Nones raises ValueError, which __main__ turns into sys.exit(1).
InitPoll ==
    /\ pc = "init_poll"
    /\ \E outcome \in PollOutcomes :
         LET ret == get_external_ip_location(script, outcome)
         IN  IF UnpackRaises(ret)
             THEN /\ Exit(1, "no_location")
                  /\ UNCHANGED <<loc, last_ip_check, update_display, map_needs_update>>
             ELSE IF ret[2] = NoneGeo
             THEN /\ Exit(0, "no_location")
                  /\ loc' = LocationOf(ret)
                  /\ UNCHANGED <<last_ip_check, update_display, map_needs_update>>
             ELSE /\ loc' = LocationOf(ret)
                  /\ last_ip_check' = now
                  /\ update_display' = TRUE
                  /\ map_needs_update' = TRUE
                  /\ pc' = "tick_poll"
                  /\ UNCHANGED <<exitCode, exitCause>>
    /\ UNCHANGED <<script, now, refreshTime, ip_changed, curSize, worldMap,
                   worldMapTemp, last_display_content, term, screen>>
    /\ UNCHANGED <<pureVars, obsVars>>

\* Top of the loop body: the poll, when it is due.
TickPoll ==
    /\ pc = "tick_poll"
    /\ LET current_time == now
       IN  IF current_time - last_ip_check > IpCheckInterval
           THEN \E outcome \in PollOutcomes :
                  LET ret == get_external_ip_location(script, outcome)
                  IN  IF UnpackRaises(ret)
                      THEN \* ValueError: the outer handler, time.sleep(5)
                           /\ pc' = "backoff"
                           /\ tick' = [NewTick EXCEPT !.poll = "fail", !.answer = outcome,
                                                          !.reached = "poll"]
                           /\ calm' = FALSE
                           /\ ip_changed' = FALSE
                           /\ UNCHANGED <<loc, update_display, last_ip_check>>
                      ELSE /\ loc' = LocationAfterPoll(loc, ret)
                           /\ update_display' =
                                (IF AddressChanged(loc, ret) THEN TRUE ELSE update_display)
                           /\ ip_changed' = AddressChanged(loc, ret)
                           /\ last_ip_check' = current_time
                           /\ pc' = "tick_size"
                           /\ tick' = [NewTick EXCEPT
                                         !.poll = IF outcome \in PollFailures THEN "fail"
                                                  ELSE IF AddressChanged(loc, ret)
                                                       THEN "changed" ELSE "same",
                                         !.answer = outcome,
                                         !.reached = "poll"]
                           /\ calm' = (calm /\ ~AddressChanged(loc, ret))
           ELSE /\ pc' = "tick_size"
                /\ tick' = [NewTick EXCEPT !.reached = "poll"]
                /\ ip_changed' = FALSE
                /\ UNCHANGED <<loc, update_display, last_ip_check, calm>>
    /\ UNCHANGED <<script, exitCode, exitCause, now, refreshTime, map_needs_update,
                   curSize, worldMap, worldMapTemp, last_display_content, term,
                   screen>>
    /\ UNCHANGED <<pureVars, mapFor, interrupted>>

\* The loop body from get_terminal_size() to the end of the resize branch.
TickSize ==
    /\ pc = "tick_size"
    /\ \E size \in TermSizes, readable \in BOOLEAN :
         /\ term' = size
         /\ IF SizeChanged(curSize, size)
            THEN /\ curSize' = size
                 /\ LET built == BuildMap(size, readable)
                    IN  CASE built.kind = "Exception" ->
                               \* time.sleep(5); continue
                               /\ pc' = AfterBuildFailure
                               /\ tick' = [tick EXCEPT !.resized = TRUE, !.build = "fail",
                                                       !.reached = "size"]
                               /\ calm' = FALSE
                               /\ UNCHANGED <<worldMap, update_display, map_needs_update,
                                              exitCode, exitCause, mapFor>>
                          [] built.kind = "SystemExit" ->
                               \* sys.exit(0) is no Exception: no handler of draw or
                               \* __main__ catches it
                               /\ IF Catches(DrawHandler, "SystemExit")
                                  THEN /\ pc' = "backoff"
                                       /\ UNCHANGED <<exitCode, exitCause>>
                                  ELSE Exit(0, "map_too_small")
                               /\ tick' = [tick EXCEPT !.resized = TRUE, !.build = "exit",
                                                       !.reached = "size"]
                               /\ calm' = FALSE
                               /\ UNCHANGED <<worldMap, update_display, map_needs_update,
                                              mapFor>>
                          [] built.kind = "ok" ->
                               /\ worldMap' = PyList(NormalizeRows(built.aimg,
                                                calculate_effective_width(size[2])))
                               /\ update_display' = TRUE
                               /\ map_needs_update' = TRUE
                               /\ pc' = "tick_render"
                               /\ tick' = [tick EXCEPT !.resized = TRUE, !.build = "ok",
                                                       !.reached = "size"]
                               /\ calm' = FALSE
                               /\ mapFor' = size
                               /\ UNCHANGED <<exitCode, exitCause>>
            ELSE /\ pc' = "tick_render"
                 /\ tick' = [tick EXCEPT !.reached = "size"]
                 /\ UNCHANGED <<curSize, worldMap, update_display, map_needs_update,
                                exitCode, exitCause, calm, mapFor>>
    /\ UNCHANGED <<script, now, refreshTime, loc, last_ip_check, ip_changed,
                   worldMapTemp, last_display_content, screen>>
    /\ UNCHANGED <<pureVars, interrupted>>

\* The loop body from "if update_display" to console.print(layout).
TickRender ==
    /\ pc = "tick_render"
    /\ IF ~update_display
       THEN /\ pc' = "sleep"
            /\ tick' = [tick EXCEPT !.reached = "render"]
            /\ UNCHANGED <<worldMapTemp, map_needs_update, last_display_content,
                           screen, update_display, calm>>
       ELSE LET effective_width == calculate_effective_width(term[2])
                remark == map_needs_update \/ ip_changed
            IN  IF (remark /\ worldMap.kind = "None")
                   \/ (~remark /\ worldMapTemp.kind = "Unbound")
                THEN \* worldMap.copy() on None: the outer handler, time.sleep(5)
                     /\ pc' = "backoff"
                     /\ tick' = [tick EXCEPT !.reached = "render"]
                     /\ calm' = FALSE
                     /\ UNCHANGED <<worldMapTemp, map_needs_update,
                                    last_display_content, screen, update_display>>
                ELSE LET temp == IF remark
                                 THEN PyList(MarkLocation(worldMap.rows, loc.geo,
                                                          effective_width))
                                 ELSE worldMapTemp
                         current_content ==
                             generate_display_content(loc.ip, loc.city, loc.region,
                                 loc.country, temp.rows, IpCheckInterval)
                     IN  /\ worldMapTemp' = temp
                         /\ map_needs_update' = (IF remark THEN FALSE ELSE map_needs_update)
                         /\ IF ShouldFlush(current_content, last_display_content,
                                           update_display)
                            THEN /\ last_display_content' = current_content
                                 /\ \E printed \in BOOLEAN :
                                      IF printed
                                      THEN /\ screen' = RenderFrame(loc, temp.rows,
                                                                    effective_width)
                                           /\ update_display' = update_display_after_print
                                           /\ pc' = "sleep"
                                           /\ tick' = [tick EXCEPT !.marked = remark,
                                                                   !.flushed = TRUE,
                                                                   !.reached = "render"]
                                           /\ calm' = TRUE
                                      ELSE \* building or printing the layout raises
                                           /\ pc' = "backoff"
                                           /\ tick' = [tick EXCEPT !.marked = remark,
                                                                   !.reached = "render"]
                                           /\ calm' = FALSE
                                           /\ update_display' =
                                                FlagAfterFailedFlush(update_display)
                                           /\ UNCHANGED screen
                            ELSE /\ pc' = "sleep"
                                 /\ tick' = [tick EXCEPT !.marked = remark,
                                                         !.reached = "render"]
                                 /\ UNCHANGED <<last_display_content, screen,
                                                update_display, calm>>
    /\ UNCHANGED <<script, exitCode, exitCause, now, refreshTime, loc, last_ip_check,
                   ip_changed, curSize, worldMap, term>>
    /\ UNCHANGED <<pureVars, mapFor, interrupted>>

\* time.sleep(refreshTime) at the end of the loop body; a negative length
\* raises ValueError, which the loop's handler answers with time.sleep(5).
Sleep ==
    /\ pc = "sleep"
    /\ IF refreshTime < 0
       THEN /\ pc' = "backoff"
            /\ calm' = FALSE
            /\ UNCHANGED now
       ELSE /\ now + refreshTime <= MaxTime
            /\ now' = now + refreshTime
            /\ pc' = "tick_poll"
            /\ UNCHANGED calm
    /\ UNCHANGED <<script, exitCode, exitCause, refreshTime, loc, last_ip_check,
                   update_display, map_needs_update, ip_changed, curSize, worldMap,
                   worldMapTemp, last_display_content, term, screen>>
    /\ UNCHANGED <<pureVars, tick, mapFor, interrupted>>

\* time.sleep(5) of a handler, then the next iteration.
Backoff ==
    /\ pc = "backoff"
    /\ now + 5 <= MaxTime
    /\ now' = now + 5
    /\ pc' = "tick_poll"
    /\ UNCHANGED <<script, exitCode, exitCause, refreshTime, loc, last_ip_check,
                   update_display, map_needs_update, ip_changed, curSize, worldMap,
                   worldMapTemp, last_display_content, term, screen>>
    /\ UNCHANGED <<pureVars, obsVars>>

\* KeyboardInterrupt, raised wherever the process is.  Inside the try block
\* of the loop it meets the loop's handler first; what that handler does not
\* catch reaches "except KeyboardInterrupt: sys.exit(0)" of __main__.
Interrupt ==
    /\ pc \in {"main", "init_poll", "tick_poll", "tick_size", "tick_render",
               "sleep", "backoff"}
    /\ interrupted' = TRUE
    /\ IF pc \in TryBlockPcs /\ Catches(DrawHandler, "KeyboardInterrupt")
       THEN /\ pc' = "backoff"
            /\ UNCHANGED <<exitCode, exitCause>>
       ELSE Exit(0, "interrupt")
    /\ UNCHANGED <<script, now, refreshTime, loc, last_ip_check, update_display,
                   map_needs_update, ip_changed, curSize, worldMap, worldMapTemp,
                   last_display_content, term, screen>>
    /\ UNCHANGED <<pureVars, tick, calm, mapFor>>

Next ==
    \/ Main
    \/ InitPoll
    \/ TickPoll
    \/ TickSize
    \/ TickRender
    \/ Sleep
    \/ Backoff
    \/ Interrupt

Spec == Init /\ [][Next]_vars

(***************************************************************************)
(* The line normalizer on its own: every row over LineChars up to          *)
(* MaxLineLen characters, every target width up to MaxTarget, normalized   *)
(* once and then once more.                                                *)
(***************************************************************************)
LineChars == {"a", " ", "W"}

Lines == UNION {[1..n -> LineChars] : n \in 0..MaxLineLen}

ProgIdle == ProgInit /\ script = "mapIP"

LineInit ==
    /\ arg \in [line : Lines, target : 0..MaxTarget]
    /\ res = <<>>
    /\ fpc = "in"
    /\ ProgIdle

NormalizeOnce ==
    /\ fpc = "in"
    /\ res' = <<ensure_line_length(arg.line, arg.target)>>
    /\ fpc' = "once"
    /\ UNCHANGED <<arg, progVars, obsVars>>

NormalizeTwice ==
    /\ fpc = "once"
    /\ res' = Append(res, ensure_line_length(res[1], arg.target))
    /\ fpc' = "twice"
    /\ UNCHANGED <<arg, progVars, obsVars>>

LineNext == NormalizeOnce \/ NormalizeTwice

SpecLine == LineInit /\ [][LineNext]_vars

(***************************************************************************)
(* The geo projector on its own: integer coordinates inside and outside    *)
(* +-90 / +-180, every grid up to MaxGridH x MaxGridW.                     *)
(***************************************************************************)
Lats == (-MaxLat..MaxLat) \cup {-1000, 1000}

Lons == {12 * k : k \in -MaxLonK..MaxLonK} \cup {-1000, 1000}

GeoInit ==
    /\ arg \in [lat : Lats, lon : Lons, h : 1..MaxGridH, w : 1..MaxGridW]
    /\ res = <<>>
    /\ fpc = "in"
    /\ ProgIdle

Project ==
    /\ fpc = "in"
    /\ res' = geo_to_ascii([lat |-> arg.lat, lon |-> arg.lon], arg.h, arg.w)
    /\ fpc' = "projected"
    /\ UNCHANGED <<arg, progVars, obsVars>>

GeoNext == Project

SpecGeo == GeoInit /\ [][GeoNext]_vars

(***************************************************************************)
(* The rasterizer on its own: bitmaps up to MaxImgW x MaxImgH (uniform or  *)
(* patterned), target columns -1..MaxCols, aspect scales in halves.        *)
(***************************************************************************)
UniformLums == {0, 100, 255}

Bitmap(W, H, lum) ==
    [y \in 1..H |-> [x \in 1..W |->
        IF lum >= 0 THEN lum ELSE (x * 67 + y * 101) % 256]]

\* lum = -1 selects the patterned bitmap.
RasterImages ==
    {Bitmap(W, H, lum) : W \in 1..MaxImgW, H \in 1..MaxImgH,
                         lum \in UniformLums \cup {-1}}

RasterInit ==
    /\ arg \in [image : RasterImages, cols : -1..MaxCols,
                sn : -1..MaxScaleHalves, more : BOOLEAN]
    /\ res = <<>>
    /\ fpc = "in"
    /\ ProgIdle

Rasterize ==
    /\ fpc = "in"
    /\ LET out == covertImageToAscii([kind |-> "image", px |-> arg.image],
                                      arg.cols, arg.sn, 2, arg.more)
       IN  res' = [out   |-> out,
                   crops |-> IF out.kind = "ok"
                             THEN CropBoxes(arg.image, arg.cols, arg.sn, 2)
                             ELSE {}]
    /\ fpc' = "rasterized"
    /\ UNCHANGED <<arg, progVars, obsVars>>

RasterNext == Rasterize

SpecRaster == RasterInit /\ [][RasterNext]_vars

(***************************************************************************)
(* The ramp lookup on its own: two mean luminances v <= v2 of 0..MaxLum    *)
(* and one of the two ramps.                                               *)
(***************************************************************************)
\* The largest value of an 8-bit sample, the divisor of the lookup.
MaxLum == 255

\* gscale[index]: Python raises IndexError past the end of the string.
GlyphAt(index, gscale) ==
    IF index \in 0..(Len(gscale) - 1) THEN gscale[index + 1] ELSE "IndexError"

RampInit ==
    /\ arg \in {a \in [v : 0..MaxLum, v2 : 0..MaxLum, more : BOOLEAN] :
                   a.v <= a.v2}
    /\ res = <<>>
    /\ fpc = "in"
    /\ ProgIdle

LookUp ==
    /\ fpc = "in"
    /\ LET gs == IF arg.more THEN gscale1 ELSE gscale2
       IN  res' = [lo    |-> GlyphIndex(arg.v, gs),
                   hi    |-> GlyphIndex(arg.v2, gs),
                   glyph |-> GlyphAt(GlyphIndex(arg.v, gs), gs)]
    /\ fpc' = "looked_up"
    /\ UNCHANGED <<arg, progVars, obsVars>>

RampNext == LookUp

SpecRamp == RampInit /\ [][RampNext]_vars

(***************************************************************************)
(* Claims.                                                                 *)
(***************************************************************************)

\* C1: for every row and every target width >= 0, the row ensure_line_length
\* returns has display width exactly the target width.
C1_ExactWidth ==
    fpc \in {"once", "twice"} => LineWidth(res[1]) = arg.target

\* C2: ensure_line_length is idempotent: normalizing a normalized row to the
\* same width returns it unchanged.
C2_Idempotent ==
    fpc = "twice" => res[2] = res[1]

\* C3: a poll inside the loop that fails leaves the Location (ip, geo, city,
\* region, country) exactly as it was, in both scripts.
C3_LocationRetained ==
    [][(pc = "tick_poll" /\ pc' \in {"tick_size", "backoff"} /\ tick'.poll = "fail")
          => loc' = loc]_vars

C3_Witness ==
    /\ script = "mapIP"
    /\ pc = "tick_size"
    /\ tick.poll = "fail"
    /\ loc = PlaceB

\* C4: a tick whose poll fails still goes on to resize detection (it is not
\* cut short by the failure), in both scripts.
C4_FailedPollReachesResize ==
    (pc = "backoff" /\ tick.poll = "fail") => tick.reached # "poll"

\* C5: once the loop is entered nothing but an interrupt ends the process:
\* the process ends only by a startup failure or an interrupt.
C5_OnlyStartupOrInterruptExits ==
    pc = "exited" => exitCause \in {"invalid_refresh", "no_location", "interrupt"}

\* C6: after a frame has been flushed, a tick with the terminal size
\* unchanged, no changed address and no error flushes no further frame.
C6_NoRedundantFlush ==
    [][(pc = "tick_render" /\ calm) => ~tick'.flushed]_vars

C6_Witness ==
    /\ pc = "sleep"
    /\ calm
    /\ tick.reached = "render"
    /\ tick.poll = "same"
    /\ ~tick.resized
    /\ ~tick.flushed
    /\ screen # EmptyContent

\* C7: after a map build failed for the size just recorded, a later tick
\* attempts the build again even when the sampled size is that same size.
C7_FailedBuildRetried ==
    [][(pc = "tick_size" /\ pc' # "exited" /\ mapFor # curSize)
          => tick'.build # "none"]_vars

\* C8: when the first poll at startup fails the process exits with code 1,
\* in both scripts.
C8_StartupFailureExitsOne ==
    (pc = "exited" /\ exitCause = "no_location") => exitCode = 1

\* C9: for every integer latitude and longitude and every grid of at least
\* one row and one column, geo_to_ascii returns a cell inside the grid.
C9_InsideGrid ==
    fpc = "projected" =>
        /\ 0 <= res[1] /\ res[1] <= arg.h - 1
        /\ 0 <= res[2] /\ res[2] <= arg.w - 1

C9_Witness ==
    /\ fpc = "projected"
    /\ arg.lat = 1000
    /\ arg.lon = -1000
    /\ arg.h = MaxGridH
    /\ res = <<0, 0>>

\* C10: geo_to_ascii returns row = clamp(floor((90 - lat)/180 * H / 0.85), 0,
\* H-1) and col = clamp(floor((lon + 180)/360 * W), 0, W-1); the corners
\* (90, -180) and (-90, 180) map to (0, 0) and (H-1, W-1).
Floor(n, d) == n \div d

Clamp(v, lo, hi) == IF v < lo THEN lo ELSE IF v > hi THEN hi ELSE v

ClaimRows(image, cols, sn, sd) ==
    Floor(ImageH(image) * cols * sn, ImageW(image) * sd)

\* C11: the rasterizer returns no grid whenever targetColumns > bitmapWidth
\* or floor(bitmapHeight / h) > bitmapHeight, and the failure is the one of
\* the size check (made before any tile is cropped), not one of a tile.
C11_TooLargeFails ==
    (fpc = "rasterized"
       /\ (\/ arg.cols > ImageW(arg.image)
           \/ (arg.sn # 0 /\ arg.cols # 0
                 /\ ClaimRows(arg.image, arg.cols, arg.sn, 2) > ImageH(arg.image))))
    => /\ res.out.kind # "ok"
       /\ arg.sn # 0 => res.out.kind = "SystemExit"

C11_Witness ==
    /\ fpc = "rasterized"
    /\ arg.cols <= ImageW(arg.image)
    /\ arg.cols >= 1
    /\ arg.sn > 0
    /\ ClaimRows(arg.image, arg.cols, arg.sn, 2) > ImageH(arg.image)
    /\ res.out.kind = "SystemExit"

\* C12: for a bitmap whose samples all have luminance L, every cell of a
\* returned grid is the ramp glyph for L, wherever the tile boundaries fall.
C12_UniformGlyph ==
    \A L \in UniformLums :
        (fpc = "rasterized"
           /\ arg.image = Bitmap(ImageW(arg.image), ImageH(arg.image), L)
           /\ res.out.kind = "ok")
        => \A j \in DOMAIN res.out.aimg : \A i \in DOMAIN res.out.aimg[j] :
               res.out.aimg[j][i]
                 = GlyphFor(L, IF arg.more THEN gscale1 ELSE gscale2)

\* A uniform mid-grey bitmap cut into tiles of unequal width and height.
C12_Witness ==
    /\ fpc = "rasterized"
    /\ arg.image = Bitmap(3, 3, 100)
    /\ arg.cols = 2
    /\ res.out.kind = "ok"
    /\ Len(res.out.aimg) = 2
    /\ Len(res.out.aimg[1]) = 2

\* C13: a returned grid has exactly floor(bitmapHeight / h) rows, with
\* h = (bitmapWidth / targetColumns) / aspectScale, and every row has exactly
\* targetColumns characters.
C13_GridShape ==
    (fpc = "rasterized" /\ res.out.kind = "ok")
    => /\ Len(res.out.aimg) = ClaimRows(arg.image, arg.cols, arg.sn, 2)
       /\ \A j \in DOMAIN res.out.aimg : Len(res.out.aimg[j]) = arg.cols

\* The crop boxes of the last call that hold sample (x, y).
BoxesHolding(x, y) ==
    {c \in res.crops : /\ c.box[1] <= x /\ x < c.box[3]
                       /\ c.box[2] <= y /\ y < c.box[4]}

C15_RampIndex ==
    fpc = "looked_up"
    => LET gs == IF arg.more THEN gscale1 ELSE gscale2
           N  == Len(gs)
       IN  /\ res.lo = Floor(arg.v * (N - 1), 255)
           /\ res.lo \in 0..(N - 1)
           /\ res.glyph = gs[res.lo + 1]
           /\ arg.v = 0 => (res.lo = 0 /\ res.glyph = gs[1])
           /\ arg.v = 255 => (res.lo = N - 1 /\ res.glyph = gs[N])
           /\ res.lo <= res.hi

\* The brightest sample looked up in the fine ramp, next to a darker one.
C15_Witness ==
    /\ fpc = "looked_up"
    /\ arg.more
    /\ arg.v = 254
    /\ arg.v2 = 255
    /\ res.lo = Len(gscale1) - 2
    /\ res.hi = Len(gscale1) - 1
    /\ res.glyph = "."

LoopPcs == {"tick_poll", "tick_size", "tick_render", "sleep", "backoff"}

\* C16: inside the loop the location is always one poll's complete answer
\* with coordinates present, and it changes only in a poll that answered with
\* an address different from the current one, all five fields together
\* becoming that poll's answer.
C16_WholesaleReplace ==
    [][/\ pc' \in LoopPcs => (loc' \in Places /\ loc'.geo # NoneGeo)
       /\ (pc \in LoopPcs /\ loc' # loc)
            => /\ pc = "tick_poll"
               /\ tick'.poll = "changed"
               /\ tick'.answer \in Places
               /\ tick'.answer.ip # loc.ip
               /\ loc' = tick'.answer]_vars

\* A poll that answered with another address has replaced the location.
C16_Witness ==
    /\ pc = "tick_size"
    /\ tick.poll = "changed"
    /\ tick.answer = PlaceB
    /\ loc = PlaceB

\* C17: once a KeyboardInterrupt has been delivered the process has ended with
\* exit code 0, whatever the loop was doing (polling, sizing, rendering,
\* sleeping or backing off); no handler of the loop takes it.
C17_InterruptExitsZero ==
    interrupted => (pc = "exited" /\ exitCode = 0 /\ exitCause = "interrupt")

\* An interrupt that arrived in the sleep after a flushed frame.
C17_Witness ==
    /\ interrupted
    /\ tick.flushed
    /\ tick.reached = "render"
    /\ pc = "exited"
    /\ exitCode = 0
    /\ now > 0

\* C18: the rasterizer runs only in a tick whose sampled terminal size differs
\* from the last-known size; with an unchanged size nothing is built and the
\* cached base grid stays as it is, whatever the forced-redraw flag and the
\* location are.
C18_BuildOnlyOnResize ==
    [][pc = "tick_size"
       => /\ tick'.build # "none" => term' # curSize
          /\ term' = curSize
               => (tick'.build = "none" /\ worldMap' = worldMap
                     /\ mapFor' = mapFor)]_vars

\* A tick that kept the cached grid although a redraw was forced by a changed
\* address.
C18_Witness ==
    /\ pc = "tick_render"
    /\ tick.poll = "changed"
    /\ tick.build = "none"
    /\ term = curSize
    /\ update_display
    /\ worldMap.kind = "list"

\* C19: for every terminal size whose map build succeeded, every row of the
\* base grid built for it, and every row of the marked copy made from it at
\* that size, has display width exactly the effective content width (terminal
\* columns minus 4).
C19_RowsHaveEffectiveWidth ==
    /\ worldMap.kind = "list"
         => \A i \in DOMAIN worldMap.rows :
                LineWidth(worldMap.rows[i]) = calculate_effective_width(mapFor[2])
    /\ (pc \in {"sleep", "backoff"} /\ tick.marked /\ mapFor = term)
         => \A i \in DOMAIN worldMapTemp.rows :
                LineWidth(worldMapTemp.rows[i]) = calculate_effective_width(term[2])

\* C20: an iteration of the loop starts only after a delay has been executed:
\* the frame-interval sleep on the normal path, the 5-second backoff on every
\* failure path (failed poll, failed build, failed composition or flush); the
\* first iteration follows the startup poll.
C20_DelayBetweenTicks ==
    [][pc' = "tick_poll"
       => \/ pc = "init_poll"
          \/ pc = "sleep" /\ refreshTime > 0 /\ now' = now + refreshTime
          \/ pc = "backoff" /\ now' = now + 5]_vars

\* The iteration after a failed map build starts five seconds later.
C20_Witness ==
    /\ pc = "tick_poll"
    /\ tick.build = "fail"
    /\ tick.reached = "size"
    /\ now >= 5

\* The cells of a grid that hold the marker glyph, as (row, col) from 0.
MarkerCells(rows) ==
    UNION {{<<r - 1, c - 1>> : c \in {k \in DOMAIN rows[r] : rows[r][k] = "X"}} :
             r \in DOMAIN rows}

\* C21: every flushed frame whose grid has cells shows the location held by
\* the loop in its header and has exactly one marker cell, the one
\* geo_to_ascii gives for that location on the frame's grid dimensions.
C21_MarkerMatchesHeader ==
    (pc = "sleep" /\ tick.flushed
       /\ Len(last_display_content.rows) >= 1
       /\ Len(last_display_content.rows[1]) >= 1)
    => LET rows == last_display_content.rows
           pos  == geo_to_ascii(loc.geo, Len(rows), Len(rows[1]))
       IN  /\ last_display_content.header
                = <<loc.ip, loc.city, loc.region, loc.country, IpCheckInterval>>
           /\ MarkerCells(rows) = {<<pos[1], pos[2]>>}

\* C22: whenever a frame has been flushed, the base grid it was composed from
\* was rasterized for the terminal size recorded in curSize.
C22_FlushedGridMatchesCurSize ==
    (pc = "sleep" /\ tick.flushed) => mapFor = curSize

\* C23: inside the loop the poller is called only when more than
\* ip_check_interval seconds have passed since the last check, and every
\* call, answered or failed, sets the last-check time to the time of the call,
\* in both scripts.
C23_PollResetsLastCheck ==
    [][(pc = "tick_poll" /\ pc' # "exited" /\ tick'.poll # "skipped")
          => /\ now - last_ip_check > IpCheckInterval
             /\ last_ip_check' = now]_vars

\* Two grids with the same number of rows and the same row lengths.
SameShape(old, new) ==
    /\ Len(new) = Len(old)
    /\ \A r \in DOMAIN old : Len(new[r]) = Len(old[r])

\* The cells in which two grids of the same shape differ.
CellsChanged(old, new) ==
    UNION {{<<r, c>> : c \in {k \in DOMAIN old[r] : new[r][k] # old[r][k]}} :
             r \in DOMAIN old}

CellsChangedFrom0(old, new) ==
    {<<rc[1] - 1, rc[2] - 1>> : rc \in CellsChanged(old, new)}

\* C24: the marker overlay leaves the base grid as it is and free of the
\* marker glyph; the marked copy has the shape of the base grid and differs
\* from it in exactly one cell, which holds the marker.
C24_OverlayOnCopy ==
    [][(pc = "tick_render" /\ tick'.marked)
          => /\ worldMap' = worldMap
             /\ MarkerCells(worldMap.rows) = {}
             /\ SameShape(worldMap.rows, worldMapTemp'.rows)
             /\ Cardinality(CellsChanged(worldMap.rows, worldMapTemp'.rows)) = 1
             /\ MarkerCells(worldMapTemp'.rows)
                  = CellsChangedFrom0(worldMap.rows, worldMapTemp'.rows)]_vars

\* C25: the forced-redraw flag, once set, is cleared only by the step that
\* flushes a frame to the terminal; an exception while the frame is composed
\* or printed leaves it set.
C25_FlagHeldUntilFlush ==
    [][(update_display /\ ~update_display')
          => /\ pc = "tick_render"
             /\ tick'.flushed
             /\ screen' = RenderFrame(loc, worldMapTemp'.rows,
                                      calculate_effective_width(term[2]))]_vars

\* A tick whose print raised after the overlay: the flag is still set.
C25_Witness ==
    /\ pc = "backoff"
    /\ tick.reached = "render"
    /\ tick.marked
    /\ ~tick.flushed
    /\ update_display

\* C26: whenever the resolution check passes with at least one column and one
\* row (1 <= targetColumns <= bitmapWidth and 1 <= rows <= bitmapHeight),
\* every tile the loops crop holds at least one sample and the rasterizer
\* returns a grid.
C26_AcceptedTilesNonEmpty ==
    (fpc = "rasterized" /\ arg.sn # 0
       /\ 1 <= arg.cols /\ arg.cols <= ImageW(arg.image)
       /\ 1 <= GridRows(ImageW(arg.image), ImageH(arg.image), arg.cols, arg.sn, 2)
       /\ GridRows(ImageW(arg.image), ImageH(arg.image), arg.cols, arg.sn, 2)
            <= ImageH(arg.image))
    => /\ \A c \in CropBoxes(arg.image, arg.cols, arg.sn, 2) :
              ~TileEmpty(c.box[1], c.box[2], c.box[3], c.box[4])
       /\ res.out.kind = "ok"

====
